---- MODULE Spec2Model ----
(***************************************************************************)
(* NTGD Monitor (oklahomahail/ntxgd): the Express server of server/app.js. *)
(* State: the in-memory store organizationsData, the requests that are in  *)
(* progress (an async handler is suspended at each of its awaits, where    *)
(* other handlers run), the wall clock, and the properties that handlers   *)
(* set on objects reached through the prototype chain of the store.        *)
(***************************************************************************)
EXTENDS Integers, Sequences, FiniteSets, TLC

(* ------------------------------ bounds --------------------------------- *)
\* requests that can be in progress at the same time
NumSlots == 2
\* fetches issued in one behaviour
MaxFetches == 2
\* entries of a configuration file, where the file is an input
MaxSeeds == 2
\* requests that read the clock, in the build whose clock moves with them
MaxTicks == 6
\* the largest `tries` a caller of getWithRetry passes, where it is an input
MaxAttempts == 3
\* elements of a page, where the page is an input of the parser
MaxElements == 3
\* requests one dashboard sends in one behaviour
MaxRequests == 3

(* --------------------------- JS values --------------------------------- *)
\* lastUpdated: null (app.js:111); times are 1, 2, ...
NullTime == 0
\* error: null (app.js:111)
null == "null"
\* what parseInt and parseFloat give for a digit string beyond the range of a
\* double; every other number of this model is a small natural
Infinity == 1000
\* Number.isFinite
isFinite(n) == n # Infinity

\* a parsed URL: protocol, hostname, pathname.split('/').filter(Boolean)
MkUrl(p, h, parts) == [protocol |-> p, hostname |-> h, parts |-> parts]
\* a url that is undefined (property missing) or that new URL() rejects
NoUrl == MkUrl("", "", <<>>)
OrgUrl(slug) == MkUrl("https:", "www.northtexasgivingday.org", <<"organization", slug>>)

\* String.prototype.toLowerCase on the slugs of this model
toLowerCase(s) ==
  CASE s = "A" -> "a"
    [] s = "B" -> "b"
    [] OTHER -> s

\* id.replace(/-/g,' ').replace(/\b\w/g, c => c.toUpperCase()) on these slugs
TitleCase(s) ==
  CASE s = "a" -> "A"
    [] s = "b" -> "B"
    [] s = "constructor" -> "Constructor"
    [] s = "7" -> "7"
    [] OTHER -> s

isValidOrgUrl(u) ==
  /\ u # NoUrl
  /\ u.protocol = "https:"
  /\ u.hostname = "www.northtexasgivingday.org"
  /\ Len(u.parts) = 2
  /\ u.parts[1] = "organization"
  /\ u.parts[2] # ""

urlToId(u) == toLowerCase(u.parts[2])

\* what organizationsData[id] can evaluate to: a stored record, undefined, or
\* a property inherited from Object.prototype (organizationsData is a plain {})
MkOrg(id, name, url, total, donors, goal, lastUpdated, error) ==
  [is |-> "record", id |-> id, name |-> name, url |-> url, total |-> total,
   donors |-> donors, goal |-> goal, lastUpdated |-> lastUpdated, error |-> error]
Undefined ==
  [is |-> "undefined", id |-> "", name |-> "", url |-> NoUrl, total |-> 0,
   donors |-> 0, goal |-> 0, lastUpdated |-> NullTime, error |-> null]
\* Object.prototype members that every plain object answers for
ProtoKeys == {"constructor"}

(* ------------------------------ Parser --------------------------------- *)
\* A page is the sequence of the elements under <body>; an element's text is
\* a sequence of tokens: the word "raised", a dollar figure "$n", a donor
\* phrase "n donors", a goal phrase "Goal: n" or "Goal: $n", or other words.
Tok(t, n) == [t |-> t, n |-> n]

RECURSIVE Concat(_)
Concat(ss) == IF ss = <<>> THEN <<>> ELSE Head(ss) \o Concat(Tail(ss))

\* $('body').text()
BodyText(page) == Concat(page)
\* the text() of every element of $('*'): body (html has the same text) and
\* each element under it
ElementTexts(page) == <<BodyText(page)>> \o page

\* /raised/i.test(t)
HasRaised(text) == \E i \in 1..Len(text) : text[i].t = "raised"
\* t.match(/\$\s*[\d,]+(?:\.\d{2})?/g) parsed: every dollar figure of the text
IsDollar(tok) == tok.t \in {"dollar", "goal$"}
Dollars(text) == SelectSeq(text, IsDollar)

RECURSIVE MaxOf(_)
MaxOf(toks) ==
  IF toks = <<>> THEN 0
  ELSE LET m == MaxOf(Tail(toks)) IN IF Head(toks).n > m THEN Head(toks).n ELSE m

\* candidates: element texts that have "raised" and a dollar figure (l.65-69)
IsCandidate(text) == text # <<>> /\ HasRaised(text) /\ Dollars(text) # <<>>
Candidates(page) == SelectSeq(ElementTexts(page), IsCandidate)
\* parsed.filter(Number.isFinite) (l.73, 87)
Finite(toks) == SelectSeq(toks, LAMBDA k : isFinite(k.n))
\* pickDollar (l.71-75)
pickDollar(arr) == MaxOf(Finite(Concat([i \in 1..Len(arr) |-> Dollars(arr[i])])))

\* body.match(re): the first matching phrase, 0 when there is none
IsDonorTok(tok) == tok.t = "donors"
IsGoalTok(tok) == tok.t \in {"goal", "goal$"}
FirstN(toks) == IF toks = <<>> THEN 0 ELSE Head(toks).n

\* nums.sort((a,b)=>a-b): insertion sort of the figures
RECURSIVE Insert(_, _)
Insert(x, s) ==
  IF s = <<>> THEN <<x>>
  ELSE IF x <= Head(s) THEN <<x>> \o s ELSE <<Head(s)>> \o Insert(x, Tail(s))
RECURSIVE SortAsc(_)
SortAsc(s) == IF s = <<>> THEN <<>> ELSE Insert(Head(s), SortAsc(Tail(s)))
Nums(toks) == [i \in 1..Len(toks) |-> toks[i].n]

\* variant: of an even number of figures, the lower middle one is taken
MedianFallbackLowerMiddle(body) ==
  LET nums == SortAsc(Nums(Finite(Dollars(body))))
  IN IF nums # <<>> THEN nums[(Len(nums) + 1) \div 2] ELSE 0
\* the median fallback of l.85-92
MedianFallback(body) ==
  LET nums == SortAsc(Nums(Finite(Dollars(body))))
  IN IF nums # <<>> THEN nums[(Len(nums) \div 2) + 1] ELSE 0

extractFundraisingData(page) ==
  LET body == BodyText(page)
      total1 == pickDollar(Candidates(page))
      donors == FirstN(SelectSeq(body, IsDonorTok))
      goal == FirstN(SelectSeq(body, IsGoalTok))
      total == IF total1 = 0 THEN MedianFallback(body) ELSE total1
  IN [total |-> total, donors |-> donors, goal |-> goal]

\* the upstream pages of this model
PageEmpty == <<>>
PageSmall == << <<Tok("raised", 0), Tok("dollar", 1)>>, <<Tok("donors", 2)>>, <<Tok("goal", 6)>> >>
PageMid ==
  << <<Tok("raised", 0), Tok("dollar", 5)>>, <<Tok("donors", 3)>>, <<Tok("goal$", Infinity)>> >>
PageLarge == << <<Tok("raised", 0), Tok("dollar", 6)>> >>
Pages == {PageEmpty, PageSmall, PageMid, PageLarge}
\* what the parser makes of each of them
Scraped == [page \in Pages |-> extractFundraisingData(page)]

(* ------------------------------ Fetcher -------------------------------- *)
\* What one axios.get answers: an HTTP status, or NoResponse for an error that
\* carries no response (DNS failure, timeout, invalid or undefined URL).
NoResponse == 0
Upstream == {200, 500}
\* default and only value of `tries` used by the routes (l.48, 132, 147, 171)
Tries == 2
\* what the upstream answers to the successive requests of one call
Runs == UNION {[1..n -> Upstream] : n \in 1..Tries}

\* axios.get(url) as request number k of a call: an undefined url is rejected
\* before any request is sent; the upstream answers run[k]
AxiosGet(url, run, k) ==
  IF url = NoUrl \/ k > Len(run) THEN NoResponse ELSE run[k]

\* the loop of getWithRetry from attempt i (0-based), lastErr being the status
\* of the last failure; sleeps lists the backoff waits
RECURSIVE RetryLoop(_, _, _, _, _, _)
\* variant: every failure is retried
RetryLoopRetriesAny(url, tries, run, i, lastErr, sleeps) ==
  IF i >= tries
  THEN [ok |-> FALSE, err |-> lastErr, requests |-> i, sleeps |-> sleeps]
  ELSE LET s == AxiosGet(url, run, i + 1)
       IN IF s = 200
          THEN [ok |-> TRUE, err |-> NoResponse, requests |-> i + 1, sleeps |-> sleeps]
          ELSE RetryLoop(url, tries, run, i + 1, s, Append(sleeps, 1500 * (i + 1)))
\* variant: the error raised is the first one
RetryLoopKeepsFirstError(url, tries, run, i, lastErr, sleeps) ==
  IF i >= tries
  THEN [ok |-> FALSE, err |-> lastErr, requests |-> i, sleeps |-> sleeps]
  ELSE LET s == AxiosGet(url, run, i + 1)
           e == IF i = 0 THEN s ELSE lastErr
       IN IF s = 200
          THEN [ok |-> TRUE, err |-> NoResponse, requests |-> i + 1, sleeps |-> sleeps]
          ELSE IF s = 429 \/ s >= 500
               THEN RetryLoop(url, tries, run, i + 1, e, Append(sleeps, 1500 * (i + 1)))
               ELSE [ok |-> FALSE, err |-> e, requests |-> i + 1, sleeps |-> sleeps]
RetryLoop(url, tries, run, i, lastErr, sleeps) ==
  IF i >= tries
  THEN [ok |-> FALSE, err |-> lastErr, requests |-> i, sleeps |-> sleeps]
  ELSE LET s == AxiosGet(url, run, i + 1)
       IN IF s = 200
          THEN [ok |-> TRUE, err |-> NoResponse, requests |-> i + 1, sleeps |-> sleeps]
          ELSE IF s = 429 \/ s >= 500
               THEN RetryLoop(url, tries, run, i + 1, s, Append(sleeps, 1500 * (i + 1)))
               ELSE [ok |-> FALSE, err |-> s, requests |-> i + 1, sleeps |-> sleeps]

getWithRetry(url, tries, run) == RetryLoop(url, tries, run, 0, NoResponse, <<>>)

\* run is what the upstream answered to exactly the requests the call made
Answers(url, run) == getWithRetry(url, Tries, run).requests = Len(run)

\* `Failed to refresh: ${e.message}` for the error of a failed fetch
RefreshError(err) ==
  CASE err = 500 -> "Failed to refresh: Request failed with status code 500"
    [] err = 429 -> "Failed to refresh: Request failed with status code 429"
    [] err = 404 -> "Failed to refresh: Request failed with status code 404"
    [] OTHER -> "Failed to refresh: no response"

(* ------------------------------- Seeds --------------------------------- *)
\* config/organizations.json as parsed by loadSeeds
Seeds ==
  << [name |-> "Org A", url |-> OrgUrl("a")],
     [name |-> "Bad", url |-> MkUrl("http:", "www.northtexasgivingday.org", <<"organization", "x">>)],
     [name |-> "", url |-> OrgUrl("B")] >>

\* the entries a configuration file is made of: a second url for the id a,
\* an id that is an array index, an id that Object.prototype has
Entries ==
  { [name |-> "Org A", url |-> OrgUrl("a")],
    [name |-> "Other", url |-> OrgUrl("A")],
    [name |-> "", url |-> OrgUrl("B")],
    [name |-> "Bad", url |-> MkUrl("http:", "www.northtexasgivingday.org", <<"organization", "x">>)],
    [name |-> "Seven", url |-> OrgUrl("7")],
    [name |-> "Ctor", url |-> OrgUrl("constructor")] }
Configs == UNION {[1..n -> Entries] : n \in 0..MaxSeeds}

\* every slug a request can name
Slugs == {"a", "b", "constructor"}
\* every slug of this model: those, and the slug of a configuration entry
AllIds == Slugs \cup {"7"}

\* process.env.RESEED_TOKEN when it is not set, req.query.token ||
\* req.headers['x-reseed-token'] when the request carries neither
NoToken == ""
Tokens == {NoToken, "s3cret", "guess"}

(* ------------------------------- State --------------------------------- *)
VARIABLES
  config,             \* config/organizations.json, parsed: the seed entries
  RESEED_TOKEN,       \* process.env.RESEED_TOKEN
  organizationsData,  \* the store: its records in Object.keys order
  objectCtor,         \* error/lastUpdated set on the inherited `constructor`
  slots,              \* the requests in progress, one handler per slot
  now,                \* the clock read by new Date(): 1 + the fetches settled
  hist,               \* per id: outcome of the last completed refresh, seeded?
  inserted,           \* the keys of the store, in the order of their creation
  dashboard,          \* the dashboard of one browser tab: the state of public/app.js
  ev                  \* what the last step did and answered

vars ==
  <<config, RESEED_TOKEN, organizationsData, objectCtor, slots, now, hist, inserted,
    dashboard, ev>>
\* what no handler of the server changes
env == <<config, RESEED_TOKEN, dashboard>>

Slots == 1..NumSlots

(* --------------------------- the store --------------------------------- *)
OwnKeys(store) == [i \in 1..Len(store) |-> store[i].id]
KeySet(store) == {store[i].id : i \in 1..Len(store)}
HasOwn(store, id) == id \in KeySet(store)
IndexOf(store, id) == CHOOSE i \in 1..Len(store) : store[i].id = id

\* the value of the inherited property organizationsData.constructor
Inherited(ctor) ==
  [is |-> "inherited", id |-> "", name |-> "", url |-> NoUrl, total |-> 0,
   donors |-> 0, goal |-> 0, lastUpdated |-> ctor.lastUpdated, error |-> ctor.error]

\* organizationsData[id], through the prototype chain
Lookup(store, ctor, id) ==
  IF HasOwn(store, id) THEN store[IndexOf(store, id)]
  ELSE IF id \in ProtoKeys THEN Inherited(ctor)
  ELSE Undefined

\* !value
Falsy(v) == v.is = "undefined"

\* keys that are canonical array indices, and their values: Object.keys lists
\* them first, in ascending order, whenever they were created
IsIndex(id) == id \in {"7"}
IndexValue(id) == IF id = "7" THEN 7 ELSE 0
ComesBefore(o, id) == IsIndex(o.id) /\ (~IsIndex(id) \/ IndexValue(o.id) < IndexValue(id))

\* organizationsData[id] = rec: an existing key keeps its place; a new one
\* comes after the keys that Object.keys lists before it
Assign(store, id, rec) ==
  IF HasOwn(store, id)
  THEN [store EXCEPT ![IndexOf(store, id)] = rec]
  ELSE IF IsIndex(id)
       THEN SelectSeq(store, LAMBDA o : ComesBefore(o, id)) \o <<rec>>
              \o SelectSeq(store, LAMBDA o : ~ComesBefore(o, id))
       ELSE Append(store, rec)

\* delete organizationsData[id]
Remove(store, id) == SelectSeq(store, LAMBDA o : o.id # id)

\* loadSeeds over the entries from position i on (l.105-115)
RECURSIVE SeedFrom(_, _, _)
\* variant: without the test of l.108, a later entry replaces the record
SeedFromLastWins(store, seeds, i) ==
  IF i > Len(seeds) THEN store
  ELSE LET s == seeds[i]
       IN IF ~isValidOrgUrl(s.url) THEN SeedFrom(store, seeds, i + 1)
          ELSE LET id == urlToId(s.url)
               IN SeedFrom(
                    Assign(store, id,
                           MkOrg(id, IF s.name # "" THEN s.name ELSE TitleCase(id),
                                 s.url, 0, 0, 0, NullTime, null)),
                    seeds, i + 1)

SeedFrom(store, seeds, i) ==
  IF i > Len(seeds) THEN store
  ELSE LET s == seeds[i]
       IN IF ~isValidOrgUrl(s.url) THEN SeedFrom(store, seeds, i + 1)
          ELSE LET id == urlToId(s.url)
               IN IF Falsy(Lookup(store, [error |-> null, lastUpdated |-> NullTime], id))
                  THEN SeedFrom(
                         Assign(store, id,
                                MkOrg(id, IF s.name # "" THEN s.name ELSE TitleCase(id),
                                      s.url, 0, 0, 0, NullTime, null)),
                         seeds, i + 1)
                  ELSE SeedFrom(store, seeds, i + 1)

loadSeeds(store, replace) == SeedFrom(IF replace THEN <<>> ELSE store, config, 1)

(* ------------------------------ requests ------------------------------- *)
EmptyMap == [x \in {} |-> ""]
NoData == [total |-> 0, donors |-> 0, goal |-> 0]

\* a slot with no request in it
Idle ==
  [kind |-> "none", pc |-> "idle", id |-> "", org |-> Undefined, url |-> NoUrl,
   name |-> "", keys |-> <<>>, results |-> EmptyMap, keys0 |-> <<>>, steady |-> TRUE]

\* the handlers in progress are a bag: which slot holds which is of no
\* consequence, so they are kept in the first slots, in one fixed order (by
\* kind, id, position and keys left), and a new request takes the first slot
\* that holds none
Free(r) == slots[r].pc = "idle" /\ \A q \in Slots : q < r => slots[q].pc # "idle"
Running(ss) == SelectSeq([i \in Slots |-> ss[i]], LAMBDA x : x.pc # "idle")
Weight(x) ==
  LET kind == CASE x.kind = "single" -> 1 [] x.kind = "bulk" -> 2 [] OTHER -> 3
      id == CASE x.id = "a" -> 1 [] x.id = "b" -> 2 [] x.id = "7" -> 3 [] OTHER -> 4
      pc == IF x.pc = "fetch" THEN 1 ELSE 2
      name == IF x.name = "" THEN 0 ELSE 1
  IN ((((kind * 5 + id) * 3 + pc) * 5 + Len(x.keys)) * 8 + x.org.lastUpdated) * 2 + name
RECURSIVE Place(_, _)
Place(x, q) ==
  IF q = <<>> THEN <<x>>
  ELSE IF Weight(x) <= Weight(Head(q)) THEN <<x>> \o q
       ELSE <<Head(q)>> \o Place(x, Tail(q))
RECURSIVE Ordered(_)
Ordered(q) == IF q = <<>> THEN <<>> ELSE Place(Head(q), Ordered(Tail(q)))
Pack(ss) ==
  [r \in Slots |-> IF r <= Len(Running(ss)) THEN Ordered(Running(ss))[r] ELSE Idle]
\* fetches issued so far: those settled and those in flight
Issued == (now - 1) + Cardinality({r \in Slots : slots[r].pc = "fetch"})
CanFetch == Issued < MaxFetches
\* requests arrive until the last fetch of the model has settled; the handlers
\* in progress then run to their end
Arriving == now <= MaxFetches

\* the record of a step: the operation and its id, whether its fetch succeeded
\* and what was scraped, the record the handler had looked up (org), what
\* organizationsData[id] was just before the step (pre), and the answer: the
\* status sent (0: none), the outcome tag, and for a bulk refresh its results,
\* the keys it started from and whether the key set stayed the same meanwhile
Event(op, id, ok, data, org, pre, status, tag, slot) ==
  [op |-> op, id |-> id, ok |-> ok, data |-> data, org |-> org, pre |-> pre,
   status |-> status, tag |-> tag, results |-> slot.results, keys0 |-> slot.keys0,
   steady |-> slot.steady]

\* no step to report: the event loop is between two callbacks
NoEvent == Event("", "", FALSE, NoData, Undefined, Undefined, 0, "", Idle)

\* one callback runs at a time (a request handler up to its first await, or
\* the continuation of a handler whose await has settled), and the next one
\* starts once it has returned to the event loop
Quiet == ev = NoEvent

\* bookkeeping: a bulk refresh in progress notes that the key set changed
Disturb(ss, store2) ==
  [r \in Slots |->
     IF ss[r].kind = "bulk" /\ KeySet(store2) # KeySet(organizationsData)
     THEN [ss[r] EXCEPT !.steady = FALSE]
     ELSE ss[r]]

SeqSet(q) == {q[i] : i \in 1..Len(q)}
\* bookkeeping: the creation order after a step that leaves store2 and that
\* created at most the key id
Born(store2, id) ==
  LET kept == SelectSeq(inserted, LAMBDA k : k \in KeySet(store2))
  IN IF id \in KeySet(store2) /\ id \notin SeqSet(kept) THEN Append(kept, id) ELSE kept

\* bookkeeping: the outcome of the last completed refresh of the record of id
Noted(id, outcome) == [hist EXCEPT ![id].last = outcome]
Fresh(id, seeded) == [hist EXCEPT ![id] = [last |-> "none", seeded |-> seeded]]

(* ------------------------- Sanity merge (l.149-156) --------------------- *)
\* variants of the merge, each with one slip
\* the total may only grow
MergeOnlyGrows(org, data, t) ==
  [org EXCEPT
     !.is = "record",
     !.total = IF data.total > org.total THEN data.total ELSE org.total,
     !.donors = IF data.donors > 0 THEN data.donors ELSE org.donors,
     !.goal = IF data.goal # 0 THEN data.goal ELSE org.goal,
     !.lastUpdated = t,
     !.error = null]
\* the scraped total is stored as it is
MergeOverwritesTotal(org, data, t) ==
  [org EXCEPT
     !.is = "record",
     !.total = data.total,
     !.donors = IF data.donors > 0 THEN data.donors ELSE org.donors,
     !.goal = IF data.goal # 0 THEN data.goal ELSE org.goal,
     !.lastUpdated = t,
     !.error = null]
\* scraped donors and goal are stored as they are
MergeOverwritesCounts(org, data, t) ==
  [org EXCEPT
     !.is = "record",
     !.total = IF data.total > 0 THEN data.total ELSE org.total,
     !.donors = data.donors,
     !.goal = data.goal,
     !.lastUpdated = t,
     !.error = null]
\* error: null is left out, so the spread keeps org.error
MergeKeepsError(org, data, t) ==
  [org EXCEPT
     !.is = "record",
     !.total = IF data.total > 0 THEN data.total ELSE org.total,
     !.donors = IF data.donors > 0 THEN data.donors ELSE org.donors,
     !.goal = IF data.goal # 0 THEN data.goal ELSE org.goal,
     !.lastUpdated = t]

Merge(org, data, t) ==
  [org EXCEPT
     !.is = "record",
     !.total = IF data.total > 0 THEN data.total ELSE org.total,
     !.donors = IF data.donors > 0 THEN data.donors ELSE org.donors,
     !.goal = IF data.goal # 0 THEN data.goal ELSE org.goal,
     !.lastUpdated = t,
     !.error = null]

(* --- what completing a fetch does to the store, for single and bulk ----- *)
\* success (l.148-156, 172-180): organizationsData[id] = { ...org, merged }
\* failure (l.159-161, 183-185): organizationsData[id].error = ...; the
\* assignment throws a TypeError when organizationsData[id] is undefined
\* variant: the failure path sets error and forgets lastUpdated
StoreAfterNoStamp(id, org, res, data) ==
  LET pre == Lookup(organizationsData, objectCtor, id)
  IN IF res.ok THEN Assign(organizationsData, id, Merge(org, data, now))
     ELSE IF pre.is = "record"
          THEN Assign(organizationsData, id, [pre EXCEPT !.error = RefreshError(res.err)])
          ELSE organizationsData

StoreAfter(id, org, res, data) ==
  LET pre == Lookup(organizationsData, objectCtor, id)
  IN IF res.ok THEN Assign(organizationsData, id, Merge(org, data, now))
     ELSE IF pre.is = "record"
          THEN Assign(organizationsData, id,
                      [pre EXCEPT !.error = RefreshError(res.err), !.lastUpdated = now])
          ELSE organizationsData

CtorAfter(id, res) ==
  IF ~res.ok /\ Lookup(organizationsData, objectCtor, id).is = "inherited"
  THEN [error |-> RefreshError(res.err), lastUpdated |-> now]
  ELSE objectCtor

Throws(id, res) == ~res.ok /\ Falsy(Lookup(organizationsData, objectCtor, id))

(* --------------- PUT /api/organizations/:id/refresh (l.142-164) --------- *)
\* l.143-147: look the record up; 404, or issue the fetch and await it
RefreshStart(r, id) ==
  /\ Quiet /\ Arriving /\ Free(r)
  /\ LET org == Lookup(organizationsData, objectCtor, id)
     IN /\ Falsy(org) \/ CanFetch
        /\ slots' = Pack([slots EXCEPT ![r] =
               IF Falsy(org) THEN Idle
               ELSE [Idle EXCEPT !.kind = "single", !.pc = "fetch", !.id = id, !.org = org]])
        /\ ev' = Event("RefreshStart", id, FALSE, NoData, org, org,
                       IF Falsy(org) THEN 404 ELSE 0, "", Idle)
  /\ UNCHANGED <<organizationsData, objectCtor, now, hist, inserted, env>>

\* l.147-163: the fetch settles; merge and answer 200, or record the error
\* and answer 502
RefreshSettle(r) ==
  /\ Quiet /\ slots[r].kind = "single" /\ slots[r].pc = "fetch"
  /\ \E run \in Runs, page \in Pages :
       /\ Answers(slots[r].org.url, run)
       /\ getWithRetry(slots[r].org.url, Tries, run).ok \/ page = PageEmpty
       /\ LET id == slots[r].id
              org == slots[r].org
              res == getWithRetry(org.url, Tries, run)
              data == IF res.ok THEN Scraped[page] ELSE NoData
              pre == Lookup(organizationsData, objectCtor, id)
              store2 == StoreAfter(id, org, res, data)
              status == IF res.ok THEN 200 ELSE IF Throws(id, res) THEN 0 ELSE 502
          IN /\ organizationsData' = store2
             /\ objectCtor' = CtorAfter(id, res)
             /\ inserted' = Born(store2, id)
             /\ slots' = Pack(Disturb([slots EXCEPT ![r] = Idle], store2))
             /\ hist' = IF Throws(id, res) THEN hist
                        ELSE Noted(id, IF res.ok THEN "success" ELSE "error")
             /\ ev' = Event("RefreshSettle", id, res.ok, data, org, pre, status,
                            IF Throws(id, res) THEN "TypeError"
                            ELSE IF res.ok THEN "success" ELSE "error", Idle)
  /\ now' = now + 1
  /\ UNCHANGED env

(* ---------------- PUT /api/organizations/refresh (l.166-191) ------------ *)
\* l.168-171 for the first of `keys`: look the record up and issue its fetch;
\* with no key left, l.190 answers. org.url on an undefined org throws inside
\* the try, and the catch then throws on organizationsData[id].error
\* variant: the loop takes the keys from the last one down
BulkNextTakesLast(slot, keys) ==
  IF keys = <<>>
  THEN [slot EXCEPT !.pc = "done", !.keys = <<>>]
  ELSE LET last == keys[Len(keys)]
           rest == SubSeq(keys, 1, Len(keys) - 1)
           org == Lookup(organizationsData, objectCtor, last)
       IN IF Falsy(org)
          THEN [slot EXCEPT !.pc = "crashed", !.id = last, !.org = org, !.keys = rest]
          ELSE [slot EXCEPT !.pc = "fetch", !.id = last, !.org = org, !.keys = rest]

\* variant: the loop ends one key early
BulkNextStopsEarly(slot, keys) ==
  IF Len(keys) <= 1
  THEN [slot EXCEPT !.pc = "done", !.keys = <<>>]
  ELSE LET org == Lookup(organizationsData, objectCtor, Head(keys))
       IN IF Falsy(org)
          THEN [slot EXCEPT !.pc = "crashed", !.id = Head(keys), !.org = org, !.keys = Tail(keys)]
          ELSE [slot EXCEPT !.pc = "fetch", !.id = Head(keys), !.org = org, !.keys = Tail(keys)]

BulkNext(slot, keys) ==
  IF keys = <<>>
  THEN [slot EXCEPT !.pc = "done", !.keys = <<>>]
  ELSE LET org == Lookup(organizationsData, objectCtor, Head(keys))
       IN IF Falsy(org)
          THEN [slot EXCEPT !.pc = "crashed", !.id = Head(keys), !.org = org, !.keys = Tail(keys)]
          ELSE [slot EXCEPT !.pc = "fetch", !.id = Head(keys), !.org = org, !.keys = Tail(keys)]

BulkEvent(op, slot) ==
  Event(op, IF slot.pc = "done" THEN "" ELSE slot.id, FALSE, NoData,
        IF slot.pc = "done" THEN Undefined ELSE slot.org,
        IF slot.pc = "done" THEN Undefined ELSE slot.org,
        IF slot.pc = "done" THEN 200 ELSE 0,
        IF slot.pc = "crashed" THEN "TypeError" ELSE "", slot)

\* the handler is gone once it has answered or thrown
Settled(slot) == IF slot.pc \in {"done", "crashed"} THEN Idle ELSE slot

\* variant: a bulk refresh waits until no other refresh is in progress
BulkStartExclusive(r) ==
  /\ Quiet /\ Arriving /\ Free(r)
  /\ \A q \in Slots : slots[q].kind \notin {"single", "bulk"}
  /\ organizationsData = <<>> \/ CanFetch
  /\ LET keys == OwnKeys(organizationsData)
         slot == BulkNext([Idle EXCEPT !.kind = "bulk", !.keys0 = keys], keys)
     IN /\ slots' = Pack([slots EXCEPT ![r] = Settled(slot)])
        /\ ev' = BulkEvent("BulkStart", slot)
  /\ UNCHANGED <<organizationsData, objectCtor, now, hist, inserted, env>>

\* l.167-171: results = {}, Object.keys(organizationsData), first iteration
BulkStart(r) ==
  /\ Quiet /\ Arriving /\ Free(r)
  /\ organizationsData = <<>> \/ CanFetch
  /\ LET keys == OwnKeys(organizationsData)
         slot == BulkNext([Idle EXCEPT !.kind = "bulk", !.keys0 = keys], keys)
     IN /\ slots' = Pack([slots EXCEPT ![r] = Settled(slot)])
        /\ ev' = BulkEvent("BulkStart", slot)
  /\ UNCHANGED <<organizationsData, objectCtor, now, hist, inserted, env>>

\* l.171-188: the fetch of the current id settles; write, tag, start the pause
BulkSettle(r) ==
  /\ Quiet /\ slots[r].kind = "bulk" /\ slots[r].pc = "fetch"
  /\ \E run \in Runs, page \in Pages :
       /\ Answers(slots[r].org.url, run)
       /\ getWithRetry(slots[r].org.url, Tries, run).ok \/ page = PageEmpty
       /\ LET id == slots[r].id
              org == slots[r].org
              res == getWithRetry(org.url, Tries, run)
              data == IF res.ok THEN Scraped[page] ELSE NoData
              pre == Lookup(organizationsData, objectCtor, id)
              store2 == StoreAfter(id, org, res, data)
              tag == IF res.ok THEN "success" ELSE "error"
              slot == Disturb(
                        [slots EXCEPT ![r] =
                           IF Throws(id, res) THEN [@ EXCEPT !.pc = "crashed"]
                           ELSE [@ EXCEPT !.pc = "sleep", !.results = (id :> tag) @@ @]],
                        store2)[r]
          IN /\ organizationsData' = store2
             /\ objectCtor' = CtorAfter(id, res)
             /\ inserted' = Born(store2, id)
             /\ slots' = Pack([Disturb(slots, store2) EXCEPT ![r] = Settled(slot)])
             /\ hist' = IF Throws(id, res) THEN hist ELSE Noted(id, tag)
             /\ ev' = Event("BulkSettle", id, res.ok, data, org, pre, 0,
                            IF Throws(id, res) THEN "TypeError" ELSE tag, slot)
  /\ now' = now + 1
  /\ UNCHANGED env

\* l.188-190, 168-171: the pause is over; next iteration, or the answer
BulkWake(r) ==
  /\ Quiet /\ slots[r].kind = "bulk" /\ slots[r].pc = "sleep"
  /\ LET slot == BulkNext(slots[r], slots[r].keys)
     IN /\ slot.pc = "fetch" => CanFetch
        /\ slots' = Pack([slots EXCEPT ![r] = Settled(slot)])
        /\ ev' = BulkEvent("BulkWake", slot)
  /\ UNCHANGED <<organizationsData, objectCtor, now, hist, inserted, env>>

(* ------------------- POST /api/organizations (l.126-140) ---------------- *)
\* the bodies a client posts
PostUrls == {OrgUrl("a"), OrgUrl("B"), MkUrl("https:", "evil.com", <<"organization", "a">>)}
PostNames == {"", "New"}

\* variant: a POST for an id that is there takes the name of the request
PostStartRenames(r, url, name) ==
  /\ Quiet /\ Arriving /\ Free(r)
  /\ LET id == IF isValidOrgUrl(url) THEN urlToId(url) ELSE ""
         org == Lookup(organizationsData, objectCtor, id)
         status == IF ~isValidOrgUrl(url) THEN 400 ELSE IF ~Falsy(org) THEN 200 ELSE 0
     IN /\ status = 0 => CanFetch
        /\ slots' = Pack([slots EXCEPT ![r] =
               IF status # 0 THEN Idle
               ELSE [Idle EXCEPT !.kind = "post", !.pc = "fetch", !.id = id,
                                 !.url = url, !.name = name]])
        /\ organizationsData' =
             IF status = 200 /\ org.is = "record" /\ name # ""
             THEN Assign(organizationsData, id, [org EXCEPT !.name = name])
             ELSE organizationsData
        /\ ev' = Event("PostStart", id, FALSE, NoData, org, org, status, "", Idle)
  /\ UNCHANGED <<objectCtor, now, hist, inserted, env>>

\* l.127-132: 400 for an invalid url, 200 with the record when the id is
\* there, else issue the fetch and await it
PostStart(r, url, name) ==
  /\ Quiet /\ Arriving /\ Free(r)
  /\ LET id == IF isValidOrgUrl(url) THEN urlToId(url) ELSE ""
         org == Lookup(organizationsData, objectCtor, id)
         status == IF ~isValidOrgUrl(url) THEN 400 ELSE IF ~Falsy(org) THEN 200 ELSE 0
     IN /\ status = 0 => CanFetch
        /\ slots' = Pack([slots EXCEPT ![r] =
               IF status # 0 THEN Idle
               ELSE [Idle EXCEPT !.kind = "post", !.pc = "fetch", !.id = id,
                                 !.url = url, !.name = name]])
        /\ ev' = Event("PostStart", id, FALSE, NoData, org, org, status, "", Idle)
  /\ UNCHANGED <<organizationsData, objectCtor, now, hist, inserted, env>>

\* l.132-139: the fetch settles; store the new record and answer 201, or 502
PostSettle(r) ==
  /\ Quiet /\ slots[r].kind = "post" /\ slots[r].pc = "fetch"
  /\ \E run \in Runs, page \in Pages :
       /\ Answers(slots[r].url, run)
       /\ getWithRetry(slots[r].url, Tries, run).ok \/ page = PageEmpty
       /\ LET id == slots[r].id
              res == getWithRetry(slots[r].url, Tries, run)
              data == IF res.ok THEN Scraped[page] ELSE NoData
              pre == Lookup(organizationsData, objectCtor, id)
              rec == MkOrg(id, IF slots[r].name # "" THEN slots[r].name ELSE TitleCase(id),
                           slots[r].url, data.total, data.donors, data.goal, now, null)
              store2 == IF res.ok THEN Assign(organizationsData, id, rec) ELSE organizationsData
              status == IF res.ok THEN 201 ELSE 502
          IN /\ organizationsData' = store2
             /\ inserted' = Born(store2, id)
             /\ slots' = Pack(Disturb([slots EXCEPT ![r] = Idle], store2))
             /\ hist' = IF res.ok THEN Fresh(id, FALSE) ELSE hist
             /\ ev' = Event("PostSettle", id, res.ok, data, Undefined, pre, status, "", Idle)
  /\ now' = now + 1
  /\ UNCHANGED env
  /\ UNCHANGED objectCtor

(* ----------------- DELETE /api/organizations/:id (l.193-198) ------------ *)
Delete(id) ==
  /\ Quiet /\ Arriving
  /\ LET org == Lookup(organizationsData, objectCtor, id)
         store2 == IF Falsy(org) THEN organizationsData ELSE Remove(organizationsData, id)
     IN /\ organizationsData' = store2
        /\ inserted' = Born(store2, id)
        /\ slots' = Disturb(slots, store2)
        /\ hist' = IF HasOwn(organizationsData, id) THEN Fresh(id, FALSE) ELSE hist
        /\ ev' = Event("Delete", id, FALSE, NoData, org, org,
                       IF Falsy(org) THEN 404 ELSE 200, "", Idle)
  /\ UNCHANGED <<objectCtor, now, env>>

(* ---------------------- GET /api/summary (l.200-213) -------------------- *)
\* a + b on numbers of which either can be Infinity
Plus(a, b) == IF a = Infinity \/ b = Infinity THEN Infinity ELSE a + b
\* nums.reduce((s, n) => s + n, 0)
RECURSIVE Reduce(_)
Reduce(nums) == IF nums = <<>> THEN 0 ELSE Plus(Head(nums), Reduce(Tail(nums)))

\* Math.round((raised / donors) * 100), the average in hundredths, for a finite
\* raised and donors > 0: Math.round rounds a half up, anything / Infinity is 0
RoundedHundredths(raised, donors) ==
  IF donors = Infinity THEN 0 ELSE (200 * raised + donors) \div (2 * donors)

\* variant: the average is cut to hundredths, not rounded
summaryFloors(store) ==
  LET totalRaised == Reduce([i \in 1..Len(store) |-> store[i].total])
      totalDonors == Reduce([i \in 1..Len(store) |-> store[i].donors])
      totalGoal == Reduce([i \in 1..Len(store) |-> store[i].goal])
  IN [organizationCount |-> Len(store),
      totalRaised |-> totalRaised,
      totalDonors |-> totalDonors,
      totalGoal |-> totalGoal,
      averageGift |-> IF totalDonors > 0 /\ totalDonors # Infinity
                      THEN (100 * totalRaised) \div totalDonors ELSE 0]

\* the body of the answer (averageGift in hundredths), without its timestamp
summary(store) ==
  LET totalRaised == Reduce([i \in 1..Len(store) |-> store[i].total])
      totalDonors == Reduce([i \in 1..Len(store) |-> store[i].donors])
      totalGoal == Reduce([i \in 1..Len(store) |-> store[i].goal])
  IN [organizationCount |-> Len(store),
      totalRaised |-> totalRaised,
      totalDonors |-> totalDonors,
      totalGoal |-> totalGoal,
      averageGift |-> IF totalDonors > 0 THEN RoundedHundredths(totalRaised, totalDonors) ELSE 0]

Summary ==
  /\ Quiet
  /\ ev' = Event("Summary", "", FALSE, summary(organizationsData), Undefined, Undefined,
                 200, "", Idle)
  /\ UNCHANGED <<organizationsData, objectCtor, slots, now, hist, inserted, env>>

(* ------------------------ POST /api/reseed (l.225-237) ------------------- *)
\* the ids of the valid entries of the configuration, each once, in the order
\* of their first entry
RECURSIVE FirstOnly(_)
FirstOnly(q) ==
  IF q = <<>> THEN <<>>
  ELSE <<Head(q)>> \o FirstOnly(SelectSeq(Tail(q), LAMBDA x : x # Head(q)))
ValidEntries(cfg) == SelectSeq(cfg, LAMBDA s : isValidOrgUrl(s.url))
SeedIds(cfg) == FirstOnly([i \in 1..Len(ValidEntries(cfg)) |-> urlToId(ValidEntries(cfg)[i].url)])

\* bookkeeping: the creation order after loadSeeds has made store2 out of base
BornSeeded(base, store2) ==
  SelectSeq(base, LAMBDA k : k \in KeySet(store2))
    \o SelectSeq(SeedIds(config), LAMBDA k : k \in KeySet(store2) /\ k \notin SeqSet(base))

\* bookkeeping: the records that loadSeeds created have had no refresh
Reseeded(store2, replace) ==
  [id \in AllIds |->
     IF id \in KeySet(store2) /\ (replace \/ id \notin KeySet(organizationsData))
     THEN [last |-> "none", seeded |-> TRUE]
     ELSE IF id \notin KeySet(store2) THEN [last |-> "none", seeded |-> FALSE]
     ELSE hist[id]]

\* variant: a request that carries no token is let through
ReseedLetsAnonymous(token, replace) ==
  /\ Quiet
  /\ LET status == IF RESEED_TOKEN = NoToken THEN 501
                   ELSE IF token # NoToken /\ token # RESEED_TOKEN THEN 401 ELSE 200
         store2 == IF status = 200 THEN loadSeeds(organizationsData, replace)
                   ELSE organizationsData
     IN /\ organizationsData' = store2
        /\ inserted' = IF status = 200
                       THEN BornSeeded(IF replace THEN <<>> ELSE inserted, store2)
                       ELSE inserted
        /\ hist' = IF status = 200 THEN Reseeded(store2, replace) ELSE hist
        /\ slots' = Disturb(slots, store2)
        /\ ev' = Event("Reseed", "", FALSE, NoData, Undefined, Undefined, status,
                       IF replace THEN "replace" ELSE "", Idle)
  /\ UNCHANGED <<objectCtor, now, env>>

\* l.227-233: 501 without a configured token, 401 for another token, else
\* loadSeeds({ replace }) and 200
Reseed(token, replace) ==
  /\ Quiet
  /\ LET status == IF RESEED_TOKEN = NoToken THEN 501
                   ELSE IF token # RESEED_TOKEN THEN 401 ELSE 200
         store2 == IF status = 200 THEN loadSeeds(organizationsData, replace)
                   ELSE organizationsData
     IN /\ organizationsData' = store2
        /\ inserted' = IF status = 200
                       THEN BornSeeded(IF replace THEN <<>> ELSE inserted, store2)
                       ELSE inserted
        /\ hist' = IF status = 200 THEN Reseeded(store2, replace) ELSE hist
        /\ slots' = Disturb(slots, store2)
        /\ ev' = Event("Reseed", "", FALSE, NoData, Undefined, Undefined, status,
                       IF replace THEN "replace" ELSE "", Idle)
  /\ UNCHANGED <<objectCtor, now, env>>

(* ------------------------------ behaviours ------------------------------ *)
\* public/app.js l.20-24 (orgs is kept as the version of the data it shows),
\* with the requests of the tab that are in flight and the server beyond them
Loaded ==
  [isRefreshing |-> FALSE, failedAttempts |-> 0, isMonitoring |-> FALSE,
   timer |-> "none", secs |-> 0, delay |-> 0, orgs |-> 0,
   requests |-> <<>>, issued |-> 0, served |-> 0]

\* module load: organizationsData = {}, then loadSeeds() (l.30, 118-121)
Boot ==
  /\ organizationsData = loadSeeds(<<>>, FALSE)
  /\ objectCtor = [error |-> null, lastUpdated |-> NullTime]
  /\ slots = [r \in Slots |-> Idle]
  /\ now = 1
  /\ hist = [id \in AllIds |->
               [last |-> "none", seeded |-> id \in KeySet(loadSeeds(<<>>, FALSE))]]
  /\ inserted = BornSeeded(<<>>, loadSeeds(<<>>, FALSE))
  /\ dashboard = Loaded
  /\ ev = Event("Startup", "", FALSE, NoData, Undefined, Undefined, 0, "", Idle)

\* one deployment: the configuration Seeds, a reseed token set
Init ==
  /\ config = Seeds
  /\ RESEED_TOKEN = "s3cret"
  /\ Boot

\* any configuration file, with or without a reseed token
ConfigInit ==
  /\ config \in Configs
  /\ RESEED_TOKEN \in {NoToken, "s3cret"}
  /\ Boot

\* the callback that ran returns to the event loop; its report is dropped
Turn ==
  /\ ev # NoEvent
  /\ ev' = NoEvent
  /\ UNCHANGED <<organizationsData, objectCtor, slots, now, hist, inserted, env>>

Next ==
  \/ \E r \in Slots, id \in Slugs : RefreshStart(r, id)
  \/ \E r \in Slots : RefreshSettle(r)
  \/ \E r \in Slots : BulkStart(r)
  \/ \E r \in Slots : BulkSettle(r)
  \/ \E r \in Slots : BulkWake(r)
  \/ \E r \in Slots, url \in PostUrls, name \in PostNames : PostStart(r, url, name)
  \/ \E r \in Slots : PostSettle(r)
  \/ \E id \in Slugs : Delete(id)
  \/ Turn

\* the requests whose handlers await, and the deletions that fall in between
Spec == Init /\ [][Next]_vars

\* seeding, reseeding and deletion over any configuration
ConfigNext ==
  \/ \E token \in Tokens, replace \in BOOLEAN : Reseed(token, replace)
  \/ \E id \in AllIds : Delete(id)
  \/ Turn

ConfigSpec == ConfigInit /\ [][ConfigNext]_vars

\* the bulk refresh and the summary over any configuration, with a client
\* that starts a bulk refresh when no request is in progress
BulkInit ==
  /\ config \in Configs
  /\ RESEED_TOKEN = NoToken
  /\ Boot

BulkOnlyNext ==
  \/ BulkStart(1)
  \/ \E r \in Slots : BulkSettle(r)
  \/ \E r \in Slots : BulkWake(r)
  \/ Summary
  \/ Turn

BulkSpec == BulkInit /\ [][BulkOnlyNext]_vars

\* the refreshes alone: single and bulk refresh requests that overlap
RefreshOnlyNext ==
  \/ \E r \in Slots, id \in Slugs : RefreshStart(r, id)
  \/ \E r \in Slots : RefreshSettle(r)
  \/ \E r \in Slots : BulkStart(r)
  \/ \E r \in Slots : BulkSettle(r)
  \/ \E r \in Slots : BulkWake(r)
  \/ Turn

RefreshSpec == Init /\ [][RefreshOnlyNext]_vars

(* ----------- the minimal build (scraper disabled): its own app.js -------- *)
\* HARDCODED_ORGS (l.7-16): some slugs are in mixed case
HARDCODED_ORGS ==
  << [name |-> "Org A", url |-> OrgUrl("a")],
     [name |-> "Org B", url |-> OrgUrl("B")] >>

\* urlToId of this build (l.18-21): the segment after /organization/,
\* lowercased, '' when there is none
urlToIdMinimal(u) ==
  IF \E i \in 1..(Len(u.parts) - 1) : u.parts[i] = "organization"
  THEN toLowerCase(u.parts[1 + CHOOSE i \in 1..(Len(u.parts) - 1) :
                                   /\ u.parts[i] = "organization"
                                   /\ \A j \in 1..(i - 1) : u.parts[j] # "organization"])
  ELSE ""

\* the seeding loop of l.30-34 from entry i on: a later entry replaces
RECURSIVE SeedMinimal(_, _, _)
SeedMinimal(store, orgs, i) ==
  IF i > Len(orgs) THEN store
  ELSE LET id == urlToIdMinimal(orgs[i].url)
       IN IF id = "" THEN SeedMinimal(store, orgs, i + 1)
          ELSE SeedMinimal(
                 Assign(store, id, MkOrg(id, orgs[i].name, orgs[i].url, 0, 0, 0, NullTime, null)),
                 orgs, i + 1)

ScraperUnavailable == "Scraper unavailable in minimal build"
\* req.params.id of the requests to this build
MinimalIds == AllIds \cup {"A"}

\* PUT /api/organizations/:id/refresh (l.47-53): 404, or 503 with a copy of
\* the record that carries the error and the time
MinimalRefresh(id) ==
  /\ Quiet /\ now <= MaxTicks
  /\ LET lid == toLowerCase(id)
         org == Lookup(organizationsData, objectCtor, lid)
         body == [org EXCEPT !.error = ScraperUnavailable, !.lastUpdated = now]
     IN ev' = IF Falsy(org)
              THEN Event("MinimalRefresh", lid, FALSE, NoData, org, org, 404, "", Idle)
              ELSE Event("MinimalRefresh", lid, FALSE, body, org, org, 503, "", Idle)
  /\ now' = now + 1
  /\ UNCHANGED <<organizationsData, objectCtor, slots, hist, inserted, env>>

\* PUT /api/organizations/refresh (l.55-63): every record gets the error and
\* the time, every id is 'skipped', 503
MinimalBulk ==
  /\ Quiet /\ now <= MaxTicks
  /\ organizationsData' =
       [i \in 1..Len(organizationsData) |->
          [organizationsData[i] EXCEPT !.error = ScraperUnavailable, !.lastUpdated = now]]
  /\ hist' = [id \in AllIds |->
                IF HasOwn(organizationsData, id) THEN [hist[id] EXCEPT !.last = "error"]
                ELSE hist[id]]
  /\ ev' = Event("MinimalBulk", "", FALSE, NoData, Undefined, Undefined, 503, "",
                 [Idle EXCEPT !.keys0 = OwnKeys(organizationsData),
                              !.results = [k \in KeySet(organizationsData) |-> "skipped"]])
  /\ now' = now + 1
  /\ UNCHANGED <<objectCtor, slots, inserted, env>>

\* module load of this build: no configuration file, no reseed route
MinimalInit ==
  /\ config = <<>>
  /\ RESEED_TOKEN = NoToken
  /\ organizationsData = SeedMinimal(<<>>, HARDCODED_ORGS, 1)
  /\ objectCtor = [error |-> null, lastUpdated |-> NullTime]
  /\ slots = [r \in Slots |-> Idle]
  /\ now = 1
  /\ hist = [id \in AllIds |->
               [last |-> "none",
                seeded |-> id \in KeySet(SeedMinimal(<<>>, HARDCODED_ORGS, 1))]]
  /\ inserted = OwnKeys(SeedMinimal(<<>>, HARDCODED_ORGS, 1))
  /\ dashboard = Loaded
  /\ ev = Event("Startup", "", FALSE, NoData, Undefined, Undefined, 0, "", Idle)

\* GET /api/summary is the same handler in both builds (l.65-78)
MinimalNext ==
  \/ \E id \in MinimalIds : MinimalRefresh(id)
  \/ MinimalBulk
  \/ Summary
  \/ Turn

MinimalSpec == MinimalInit /\ [][MinimalNext]_vars

(* ------------------- getWithRetry as its callers see it ------------------ *)
\* what an upstream can answer to one request: 200, a status that is not
\* retried, the statuses that are, or no response at all
Statuses == {200, 404, 429, 500, 503, NoResponse}
\* the answers the upstream has ready for the successive requests of a call
Replies == [1..MaxAttempts -> Statuses]
FetchUrls == {OrgUrl("a"), NoUrl}

\* one call getWithRetry(url, tries) against an upstream that answers run
CallGetWithRetry(url, tries, run) ==
  /\ Quiet
  /\ ev' = [op |-> "getWithRetry", url |-> url, tries |-> tries, run |-> run,
            res |-> getWithRetry(url, tries, run)]
  /\ UNCHANGED <<organizationsData, objectCtor, slots, now, hist, inserted, env>>

FetchNext ==
  \/ \E url \in FetchUrls, tries \in 1..MaxAttempts, run \in Replies :
        CallGetWithRetry(url, tries, run)
  \/ Turn

FetchSpec == Init /\ [][FetchNext]_vars

(* ------------------ extractFundraisingData on any page ------------------ *)
\* the texts an element of a page can have: "$2 raised", "$1", "$3",
\* "Goal: $4", "Goal: 4", "raised", "2 donors", "50% complete"
Texts ==
  { <<Tok("raised", 0), Tok("dollar", 2)>>, <<Tok("dollar", 1)>>, <<Tok("dollar", 3)>>,
    <<Tok("goal$", 4)>>, <<Tok("goal", 4)>>, <<Tok("raised", 0)>>, <<Tok("donors", 2)>>,
    <<Tok("pct", 50)>> }
AnyPage == UNION {[1..n -> Texts] : n \in 0..MaxElements}

\* one call extractFundraisingData(html)
Extract(page) ==
  /\ Quiet
  /\ ev' = [op |-> "extract", page |-> page, data |-> extractFundraisingData(page)]
  /\ UNCHANGED <<organizationsData, objectCtor, slots, now, hist, inserted, env>>

ExtractNext ==
  \/ \E page \in AnyPage : Extract(page)
  \/ Turn

ExtractSpec == Init /\ [][ExtractNext]_vars

(* ------------------- the dashboard (public/app.js l.1-400) --------------- *)
\* a request in flight: bulk or single, who called refreshAll for it, and the
\* version of the server's data its response carries (0: not yet served)
Request(kind, from) == [kind |-> kind, from |-> from, ver |-> 0]
InFlight(d, kind) == {i \in 1..Len(d.requests) : d.requests[i].kind = kind}
Without(q, i) == SubSeq(q, 1, i - 1) \o SubSeq(q, i + 1, Len(q))
Min(a, b) == IF a < b THEN a ELSE b
\* what the user may have typed in the interval field: nothing, 30, 90, 400
Typed == {0, 30, 90, 400}
\* Math.max(30, parseInt(els.refreshInterval.value) || 90) (l.257)
Secs(v) == IF v = 0 THEN 90 ELSE IF v < 30 THEN 30 ELSE v

\* variant: refreshAll without the guard of l.219
refreshAllUnguarded(d, from) ==
  [d EXCEPT !.isRefreshing = TRUE,
            !.requests = Append(@, Request("bulk", from)),
            !.issued = @ + 1]
\* refreshAll (l.218-229) up to its await: returns at once while a bulk refresh
\* is in flight, else sets isRefreshing and sends PUT /api/organizations/refresh
refreshAll(d, from) ==
  IF d.isRefreshing THEN d
  ELSE [d EXCEPT !.isRefreshing = TRUE,
                 !.requests = Append(@, Request("bulk", from)),
                 !.issued = @ + 1]
\* the tab sends no more than MaxRequests requests
Sendable(d2) == d2.issued <= MaxRequests

Step(op, from, outcome) == [op |-> op, from |-> from, outcome |-> outcome, was |-> dashboard]
Server == <<config, RESEED_TOKEN, organizationsData, objectCtor, slots, now, hist, inserted>>

\* the Start button (shown while not monitoring): start() (l.256-285)
StartClick(v) ==
  /\ ~dashboard.isMonitoring
  /\ LET d1 == [dashboard EXCEPT !.secs = Secs(v), !.timer = "interval", !.delay = 0,
                                 !.isMonitoring = TRUE]
         d2 == refreshAll(d1, "start")
     IN Sendable(d2) /\ dashboard' = d2
  /\ ev' = Step("start", "start", "")
  /\ UNCHANGED Server

\* the Stop button (shown while monitoring): stop() (l.287-299); secs and delay
\* live in the callbacks of the timer that it clears
StopClick ==
  /\ dashboard.isMonitoring
  /\ dashboard' = [dashboard EXCEPT !.isMonitoring = FALSE, !.failedAttempts = 0,
                                    !.timer = "none", !.secs = 0, !.delay = 0]
  /\ ev' = Step("stop", "", "")
  /\ UNCHANGED Server

\* the Refresh Now button (l.370)
RefreshNowClick ==
  /\ LET d2 == refreshAll(dashboard, "button")
     IN Sendable(d2) /\ dashboard' = d2
  /\ ev' = Step("refreshNow", "button", "")
  /\ UNCHANGED Server

\* the callback of setInterval (l.262-273): await refreshAll(), then
\* failedAttempts = 0; refreshAll catches every error of its own (l.243), so
\* its promise never rejects and the catch of l.266-272 does not run. When
\* refreshAll returns at its guard the reset follows at once.
TimerTick ==
  /\ dashboard.timer = "interval"
  /\ LET d2 == refreshAll(dashboard, "timer")
     IN /\ Sendable(d2)
        /\ dashboard' = IF dashboard.isRefreshing THEN [d2 EXCEPT !.failedAttempts = 0] ELSE d2
  /\ ev' = Step("tick", "timer", "")
  /\ UNCHANGED Server

\* the 10-minute fallback timer (l.378-382)
FallbackTick ==
  /\ ~dashboard.isMonitoring
  /\ LET d2 == refreshAll(dashboard, "fallback")
     IN Sendable(d2) /\ dashboard' = d2
  /\ ev' = Step("fallback", "fallback", "")
  /\ UNCHANGED Server

\* the Refresh button of an organization: refreshOrganization (l.187-193) up
\* to its await
RefreshOrganizationClick ==
  /\ LET d2 == IF dashboard.isRefreshing THEN dashboard
               ELSE [dashboard EXCEPT !.requests = Append(@, Request("single", "button")),
                                      !.issued = @ + 1]
     IN Sendable(d2) /\ dashboard' = d2
  /\ ev' = Step("refreshOrganization", "button", "")
  /\ UNCHANGED Server

\* the server handles a request of the tab: its data gets a new version, which
\* the response will carry
Serve(i) ==
  /\ i \in 1..Len(dashboard.requests) /\ dashboard.requests[i].ver = 0
  /\ dashboard' = [dashboard EXCEPT !.served = @ + 1, !.requests[i].ver = dashboard.served + 1]
  /\ ev' = Step("serve", dashboard.requests[i].from, "")
  /\ UNCHANGED Server

Outcomes == {"ok", "failed", "timeout"}
\* api() settles for the bulk refresh (l.60-86) and refreshAll goes on
\* (l.230-252): success path, or catch, then finally; the callback of the
\* interval that awaited it then resets failedAttempts (l.265)
BulkResponse(i, outcome) ==
  /\ i \in InFlight(dashboard, "bulk")
  /\ outcome = "ok" => dashboard.requests[i].ver > 0
  /\ LET r == dashboard.requests[i]
         d1 == IF outcome = "ok"
               THEN [dashboard EXCEPT !.orgs = r.ver, !.failedAttempts = 0]
               ELSE [dashboard EXCEPT !.failedAttempts = @ + 1]
         d2 == [d1 EXCEPT !.isRefreshing = FALSE, !.requests = Without(@, i)]
     IN dashboard' = IF r.from = "timer" THEN [d2 EXCEPT !.failedAttempts = 0] ELSE d2
  /\ ev' = Step("bulkResponse", dashboard.requests[i].from, outcome)
  /\ UNCHANGED Server

\* api() settles for a single refresh and refreshOrganization goes on
\* (l.194-204): orgs[id] = data, or the toast of the catch
SingleResponse(i, outcome) ==
  /\ i \in InFlight(dashboard, "single")
  /\ outcome = "ok" => dashboard.requests[i].ver > 0
  /\ LET r == dashboard.requests[i]
         d1 == IF outcome = "ok" THEN [dashboard EXCEPT !.orgs = r.ver] ELSE dashboard
     IN dashboard' = [d1 EXCEPT !.requests = Without(@, i)]
  /\ ev' = Step("singleResponse", dashboard.requests[i].from, outcome)
  /\ UNCHANGED Server

DashboardNext ==
  \/ \E v \in Typed : StartClick(v)
  \/ StopClick
  \/ RefreshNowClick
  \/ TimerTick
  \/ FallbackTick
  \/ RefreshOrganizationClick
  \/ \E i \in 1..MaxRequests : Serve(i)
  \/ \E i \in 1..MaxRequests, outcome \in Outcomes : BulkResponse(i, outcome)
  \/ \E i \in 1..MaxRequests, outcome \in Outcomes : SingleResponse(i, outcome)

DashboardSpec == Init /\ [][DashboardNext]_vars

(* ------------------------------ properties ------------------------------ *)
\* organizationsData[ev.id] after the last step
Cur == Lookup(organizationsData, objectCtor, ev.id)
\* the last step settled the fetch of a refresh (single, or one of a bulk)
\* whose lookup had found a record
RefreshSettled == ev.op \in {"RefreshSettle", "BulkSettle"} /\ ev.org.is = "record"
\* ... and the handler did not throw
RefreshCompleted == RefreshSettled /\ ev.tag # "TypeError"
\* the single refresh answered 200, the bulk refresh tagged the id 'success'
ReportedSuccess ==
  IF ev.op = "RefreshSettle" THEN ev.status = 200 /\ ev.tag = "success"
  ELSE ev.tag = "success" /\ ev.id \in DOMAIN ev.results /\ ev.results[ev.id] = "success"
\* the single refresh answered 502, the bulk refresh tagged the id 'error'
ReportedError ==
  IF ev.op = "RefreshSettle" THEN ev.status = 502 /\ ev.tag = "error"
  ELSE ev.tag = "error" /\ ev.id \in DOMAIN ev.results /\ ev.results[ev.id] = "error"
\* the clock value the last settle step read
AttemptTime == now - 1

\* C1: a refresh whose fetch succeeded, whose record had a positive total when
\* it was looked up, and that scraped more than 5 times that total, leaves the
\* stored total at the previous value.
C1_SanityGuard ==
  (RefreshSettled /\ ev.ok /\ ev.org.total > 0 /\ ev.data.total > 5 * ev.org.total)
    => (Cur.is = "record" /\ Cur.total = ev.org.total)

\* C2: a refresh whose fetch succeeded and that scraped a positive total
\* stores the scraped total when the previous total (the one looked up, or the
\* one stored just before the write) was 0 or at least a fifth of it.
C2_AcceptTotal ==
  \A prev \in {ev.org.total, ev.pre.total} :
    (RefreshSettled /\ ev.ok /\ ev.data.total > 0
       /\ (prev = 0 \/ ev.data.total <= 5 * prev))
      => (Cur.is = "record" /\ Cur.total = ev.data.total)
\* a positive total was replaced by a different scraped total within 5 times it
C2_Witness ==
  /\ RefreshSettled /\ ev.ok
  /\ ev.org.total > 0 /\ ev.data.total > ev.org.total /\ ev.data.total <= 5 * ev.org.total
  /\ Cur.total = ev.data.total

\* C3: a refresh whose fetch succeeded and that scraped total 0 leaves the
\* total that the record had when the refresh looked it up, is reported as
\* success and leaves the error empty.
C3_NothingParsed ==
  (RefreshSettled /\ ev.ok /\ ev.data.total = 0)
    => (Cur.is = "record" /\ Cur.total = ev.org.total /\ Cur.error = null /\ ReportedSuccess)
\* nothing was scraped over a positive total
C3_Witness ==
  /\ RefreshSettled /\ ev.ok /\ ev.data.total = 0
  /\ ev.org.total > 0 /\ Cur.total = ev.org.total /\ ReportedSuccess

\* C4 as claimed: a refresh whose fetch succeeded stores the scraped donors
\* and the scraped goal, 0 included.
C4_AcceptsZero ==
  (RefreshSettled /\ ev.ok)
    => (Cur.is = "record" /\ Cur.donors = ev.data.donors /\ Cur.goal = ev.data.goal)
\* C4 amended: a refresh whose fetch succeeded stores the scraped donors
\* (resp. goal) when it is positive, and keeps the donors (resp. goal) of the
\* record it looked up when the scraped value is 0; each field on its own.
C4_PositiveOnly ==
  (RefreshSettled /\ ev.ok)
    => /\ Cur.is = "record"
       /\ Cur.donors = (IF ev.data.donors > 0 THEN ev.data.donors ELSE ev.org.donors)
       /\ Cur.goal = (IF ev.data.goal > 0 THEN ev.data.goal ELSE ev.org.goal)
\* donors scraped as 0 over positive donors and goal, the total being replaced
C4_Witness ==
  /\ RefreshSettled /\ ev.ok
  /\ ev.org.donors > 0 /\ ev.data.donors = 0 /\ Cur.donors = ev.org.donors
  /\ ev.org.goal > 0 /\ ev.data.goal = 0 /\ Cur.goal = ev.org.goal
  /\ ev.data.total > 0

\* C5: a refresh of a record whose fetch failed leaves a record with an error
\* and lastUpdated of this attempt and the total, donors, goal, id, name and
\* url stored before; the single refresh answers 502, the bulk tags 'error'.
C5_FailureKeepsData ==
  (RefreshSettled /\ ~ev.ok)
    => /\ Cur.is = "record" /\ ev.pre.is = "record"
       /\ Cur.error # null /\ Cur.lastUpdated = AttemptTime
       /\ Cur.total = ev.pre.total /\ Cur.donors = ev.pre.donors /\ Cur.goal = ev.pre.goal
       /\ Cur.id = ev.pre.id /\ Cur.name = ev.pre.name /\ Cur.url = ev.pre.url
       /\ ReportedError

\* C6: for every stored record that has had a completed refresh attempt, the
\* error is null exactly when the last completed attempt on it succeeded.
C6_ErrorIsLastOutcome ==
  \A i \in 1..Len(organizationsData) :
    LET o == organizationsData[i]
    IN hist[o.id].last # "none" => (o.error = null <=> hist[o.id].last = "success")
\* a successful refresh cleared the error that a failed one had left
C6_Witness ==
  /\ RefreshCompleted /\ ev.ok
  /\ ev.pre.is = "record" /\ ev.pre.error # null
  /\ Cur.error = null /\ hist[ev.id].last = "success"

\* C7: a seeded record has lastUpdated null until a refresh attempt on it
\* completes; a completed attempt, successful or not, sets lastUpdated to the
\* time of the attempt, never earlier than the lastUpdated stored before.
C7_LastUpdated ==
  /\ \A i \in 1..Len(organizationsData) :
       LET o == organizationsData[i]
       IN (hist[o.id].seeded /\ hist[o.id].last = "none") => o.lastUpdated = NullTime
  /\ RefreshCompleted =>
       /\ Cur.is = "record" /\ Cur.lastUpdated = AttemptTime
       /\ ev.pre.is = "record" => Cur.lastUpdated >= ev.pre.lastUpdated
\* a failed attempt moved a lastUpdated that an earlier attempt had set
C7_Witness ==
  /\ RefreshCompleted /\ ~ev.ok
  /\ ev.pre.is = "record" /\ ev.pre.lastUpdated # NullTime
  /\ Cur.lastUpdated = AttemptTime /\ Cur.lastUpdated > ev.pre.lastUpdated

\* the last step belongs to a bulk refresh during which no key was added to
\* or removed from the store
SteadyBulk == ev.op \in {"BulkStart", "BulkSettle", "BulkWake"} /\ ev.steady
Range(f) == {f[x] : x \in DOMAIN f}

\* C8: a bulk refresh during which no organization is created or deleted
\* never throws, tags each id by the outcome of its fetch, and answers 200
\* with exactly one 'success' or 'error' entry per id that was in the store
\* when it started.
C8_BulkCovers ==
  SteadyBulk =>
    /\ ev.tag # "TypeError"
    /\ ev.op = "BulkSettle" => (IF ev.ok THEN ReportedSuccess ELSE ReportedError)
    /\ DOMAIN ev.results \subseteq SeqSet(ev.keys0)
    /\ Range(ev.results) \subseteq {"success", "error"}
    /\ ev.status = 200 => DOMAIN ev.results = SeqSet(ev.keys0)
\* a bulk refresh over two organizations answered after one failed
C8_Witness ==
  /\ SteadyBulk /\ ev.op = "BulkWake" /\ ev.status = 200
  /\ Len(ev.keys0) = 2 /\ DOMAIN ev.results = SeqSet(ev.keys0)
  /\ ev.results[ev.keys0[1]] = "error" /\ ev.results[ev.keys0[2]] = "success"

\* C9: no refresh handler, single or bulk, ends in an exception that nothing
\* catches.
C9_NeverThrows == ev.tag # "TypeError"

\* C10: a single refresh of an id that is not a key of the store answers 404,
\* issues no fetch and leaves the store as it was.
C10_UnknownId ==
  [][\A r \in Slots, id \in Slugs :
       (RefreshStart(r, id) /\ ~HasOwn(organizationsData, id))
         => /\ ev'.status = 404
            /\ slots' = slots
            /\ organizationsData' = organizationsData
            /\ objectCtor' = objectCtor]_vars

\* C11 (durability): a key that is not in the store comes into it only by a
\* POST /api/organizations or a reseed; so an id whose DELETE answered 200
\* stays absent until one of the two creates it again, whatever refresh was
\* in flight for it.
C11_DeletionDurable ==
  [][\A id \in Slugs :
       (~HasOwn(organizationsData, id) /\ HasOwn(organizationsData', id))
         => ev'.op \in {"PostSettle", "Reseed"}]_vars

C13_IdentityImmutable ==
  (RefreshCompleted /\ ev.pre.is = "record")
    => /\ Cur.is = "record"
       /\ Cur.id = ev.pre.id /\ Cur.name = ev.pre.name /\ Cur.url = ev.pre.url

\* the url has a path of the shape /organization/<slug>
HasShape(u) == Len(u.parts) = 2 /\ u.parts[1] = "organization" /\ u.parts[2] # ""
\* ... and is an https url of www.northtexasgivingday.org
Seedable(u) ==
  u.protocol = "https:" /\ u.hostname = "www.northtexasgivingday.org" /\ HasShape(u)
\* the record that seeding makes of the entry s
Seeded(s, name) ==
  MkOrg(toLowerCase(s.url.parts[2]), name, s.url, 0, 0, 0, NullTime, null)

RECURSIVE SumTo(_, _)
SumTo(vals, n) ==
  IF n = 0 THEN 0
  ELSE IF vals[n] = Infinity \/ SumTo(vals, n - 1) = Infinity THEN Infinity
       ELSE SumTo(vals, n - 1) + vals[n]

\* C15: the answer of GET /api/summary has organizationCount = the number of
\* records, totalRaised, totalDonors and totalGoal = the sums of the records'
\* total, donors and goal at that moment, and averageGift = 0 when
\* totalDonors is 0, else totalRaised / totalDonors rounded to the nearest
\* hundredth, a half going up (averageGift is in hundredths here).
C15_Summary ==
  ev.op = "Summary" =>
    LET store == organizationsData
        n == Len(store)
        R == SumTo([i \in 1..n |-> store[i].total], n)
        D == SumTo([i \in 1..n |-> store[i].donors], n)
        G == SumTo([i \in 1..n |-> store[i].goal], n)
        avg == ev.data.averageGift
    IN /\ ev.status = 200
       /\ ev.data.organizationCount = Cardinality(KeySet(store))
       /\ ev.data.totalRaised = R /\ ev.data.totalDonors = D /\ ev.data.totalGoal = G
       /\ D = 0 => avg = 0
       /\ (D > 0 /\ D # Infinity) =>
            /\ 2 * avg * D <= 200 * R + D
            /\ 200 * R + D < 2 * (avg + 1) * D
\* a summary over two records whose average was rounded up
C15_Witness ==
  /\ ev.op = "Summary" /\ ev.data.organizationCount = 2
  /\ ev.data.totalDonors > 0 /\ ev.data.totalDonors # Infinity
  /\ ev.data.averageGift * ev.data.totalDonors > 100 * ev.data.totalRaised

\* C16: in every state, every record of the store has a total, a donors and a
\* goal that are finite numbers >= 0 (the numbers of the model are naturals,
\* or Infinity).
C16_NumbersFinite ==
  \A i \in 1..Len(organizationsData) :
    LET o == organizationsData[i]
    IN /\ o.total >= 0 /\ o.total # Infinity
       /\ o.donors >= 0 /\ o.donors # Infinity
       /\ o.goal >= 0 /\ o.goal # Infinity

\* C17: in the minimal build, after a single refresh of a known id has
\* answered 503, the record stored under the id has the error and the
\* lastUpdated of the answer.
C17_MinimalRefreshStores ==
  (ev.op = "MinimalRefresh" /\ ev.status = 503 /\ ev.org.is = "record")
    => /\ Cur.is = "record"
       /\ Cur.error = ev.data.error
       /\ Cur.lastUpdated = ev.data.lastUpdated

\* C18: a reseed request changes the store only when RESEED_TOKEN is set and
\* the token of the request equals it; with no RESEED_TOKEN it answers 501,
\* with a missing or different token 401, and in both cases the store stays
\* as it was, with replace=true too.
C18_ReseedProtected ==
  [][\A token \in Tokens, replace \in BOOLEAN :
       Reseed(token, replace) =>
         /\ RESEED_TOKEN = NoToken =>
              ev'.status = 501 /\ organizationsData' = organizationsData
         /\ (RESEED_TOKEN # NoToken /\ token # RESEED_TOKEN) =>
              ev'.status = 401 /\ organizationsData' = organizationsData
         /\ organizationsData' # organizationsData =>
              RESEED_TOKEN # NoToken /\ token = RESEED_TOKEN]_vars
\* a reseed with replace=true was refused with 401 in a store from which a
\* seeded organization had been deleted
C18_Witness ==
  /\ ev.op = "Reseed" /\ ev.status = 401 /\ ev.tag = "replace"
  /\ organizationsData # <<>>
  /\ organizationsData # loadSeeds(organizationsData, FALSE)

\* C19: refreshes are not mutually excluded: between two callbacks, a bulk
\* refresh and a single refresh of any stored id can start (look the record
\* up and issue the fetch) whatever refreshes are in progress, as long as the
\* model has a slot and a fetch left for it.
C19_NoMutualExclusion ==
  \A r \in Slots :
    (Quiet /\ Free(r) /\ CanFetch) =>
      /\ ENABLED BulkStart(r)
      /\ \A id \in KeySet(organizationsData) : ENABLED RefreshStart(r, id)
\* two bulk refreshes are in progress, both have written the record of the
\* same id, and the write of the first fell between the lookup and the write
\* of the second
C19_Witness ==
  /\ ev.op = "BulkSettle" /\ ev.tag # "TypeError"
  /\ ev.pre.is = "record" /\ ev.pre.lastUpdated > ev.org.lastUpdated
  /\ Cardinality({q \in Slots : slots[q].kind = "bulk" /\ slots[q].pc = "sleep"
                                  /\ ev.id \in DOMAIN slots[q].results}) = 2

\* the order of Object.keys for keys created in the order ins: the array
\* indices first (ascending; there is one in this model), then the others in
\* the order of their creation
KeyOrder(ins) ==
  SelectSeq(ins, LAMBDA k : IsIndex(k)) \o SelectSeq(ins, LAMBDA k : ~IsIndex(k))
\* the bulk refresh of slot sl is at the k-th of the keys it started from, has
\* the keys after it still to do, and has recorded the outcome of exactly the
\* keys before it (and of the k-th once its fetch has settled)
BulkInOrder(sl) ==
  LET k == Len(sl.keys0) - Len(sl.keys)
  IN /\ k \in 1..Len(sl.keys0)
     /\ sl.keys = SubSeq(sl.keys0, k + 1, Len(sl.keys0))
     /\ sl.id = sl.keys0[k]
     /\ sl.pc \in {"fetch", "sleep"}
     /\ sl.pc = "fetch" => DOMAIN sl.results = {sl.keys0[j] : j \in 1..(k - 1)}
     /\ sl.pc = "sleep" => DOMAIN sl.results = {sl.keys0[j] : j \in 1..k}
FetchesInFlight(ss) == Cardinality({q \in Slots : ss[q].pc = "fetch"})
\* the step of a bulk refresh that follows the settling of its fetch writes
\* the outcome and issues no fetch: the next fetch waits for the pause
SettleThenPause ==
  \A r \in Slots :
    BulkSettle(r) =>
      /\ FetchesInFlight(slots') = FetchesInFlight(slots) - 1
      /\ ev'.tag # "TypeError" =>
           Lookup(organizationsData', objectCtor', slots[r].id).lastUpdated = now

\* C20 as claimed: a bulk refresh takes the ids in the order in which they
\* were inserted into the store.
C20_InsertionOrder ==
  ev.op = "BulkStart" => ev.keys0 = inserted
\* C20 amended: a bulk refresh takes the ids in the order of Object.keys at
\* its start (array-index ids first, then the others in insertion order),
\* one at a time: it has one position in that list, so at most one fetch in
\* flight; the outcomes of all the ids before that position are recorded;
\* and the step that writes an outcome issues no fetch, the next one being
\* issued after the pause.
C20_OneAtATime ==
  /\ [](/\ ev.op = "BulkStart" => ev.keys0 = KeyOrder(inserted)
        /\ \A q \in Slots : slots[q].kind = "bulk" => BulkInOrder(slots[q]))
  /\ [][SettleThenPause]_vars
\* a bulk refresh over two ids is at the fetch of the second, which was
\* created before the first
C20_Witness ==
  /\ ev.op = "BulkWake"
  /\ \E q \in Slots :
       /\ slots[q].kind = "bulk" /\ slots[q].pc = "fetch"
       /\ Len(slots[q].keys0) = 2 /\ slots[q].id = slots[q].keys0[2]
       /\ DOMAIN slots[q].results = {slots[q].keys0[1]}
       /\ inserted = <<slots[q].keys0[2], slots[q].keys0[1]>>

\* the refresh of the last step found no value for field f, another write had
\* changed the stored value since its lookup, and it put the value of its
\* lookup back
StaleWrite(f) ==
  /\ ev.data[f] = 0
  /\ (CASE f = "total" -> ev.pre.total # ev.org.total /\ Cur.total = ev.org.total
        [] f = "donors" -> ev.pre.donors # ev.org.donors /\ Cur.donors = ev.org.donors
        [] OTHER -> ev.pre.goal # ev.org.goal /\ Cur.goal = ev.org.goal)

\* C21: whenever a refresh writes the record of an id that held a record just
\* before the write, each of the stored total, donors and goal is afterwards
\* the value stored just before the write or the value this refresh scraped,
\* and a refresh that found nothing for a field does not put the older value of
\* its lookup back over a newer one.
C21_NoStaleWrite ==
  (RefreshCompleted /\ ev.ok /\ ev.pre.is = "record") =>
    /\ Cur.is = "record"
    /\ Cur.total \in {ev.pre.total, ev.data.total}
    /\ Cur.donors \in {ev.pre.donors, ev.data.donors}
    /\ Cur.goal \in {ev.pre.goal, ev.data.goal}
    /\ \A f \in {"total", "donors", "goal"} : ~StaleWrite(f)

\* the record stored under id was created by a POST and no refresh has
\* written it since
PostedRecord(id) ==
  HasOwn(organizationsData, id) /\ ~hist[id].seeded /\ hist[id].last = "none"

\* C22: creation happens once: no POST answers 201 for an id whose record
\* another POST has created (and that was not deleted since), and so it
\* replaces no such record.
C22_CreatedOnce ==
  [][(ev'.op = "PostSettle" /\ ev'.status = 201) => ~PostedRecord(ev'.id)]_vars

\* the last step was a call of getWithRetry
Called == ev # NoEvent /\ ev.op = "getWithRetry"
\* the status that request k of the call got
Got(k) == AxiosGet(ev.url, ev.run, k)
Retried(s) == s = 429 \/ s >= 500

\* C23: a request of getWithRetry is followed by another one only if it failed
\* with 429 or a status >= 500 and attempts remained; a failure of any other
\* kind ends the call with that error, with no further request and no backoff
\* wait after it.
C23_RetryCondition ==
  Called =>
    /\ \A k \in 1..(ev.res.requests - 1) : Retried(Got(k)) /\ k < ev.tries
    /\ \A k \in 1..ev.tries :
         (k <= ev.res.requests /\ Got(k) # 200 /\ ~Retried(Got(k)))
           => /\ ev.res.requests = k
              /\ ~ev.res.ok /\ ev.res.err = Got(k)
              /\ Len(ev.res.sleeps) = k - 1
\* a call retried after a 503 and was then ended at once by a 404
C23_Witness ==
  /\ Called /\ ev.tries = 3 /\ ev.res.requests = 2
  /\ Got(1) = 503 /\ Got(2) = 404 /\ ev.res.err = 404 /\ ev.res.sleeps = <<1500>>

\* C24: a call getWithRetry(url, tries) with tries >= 1 ends after at most
\* tries requests; when it returns, the request that succeeded is the last it
\* made and the first that succeeded; when no request succeeded, it raises the
\* error of the last request it made.
C24_Bounded ==
  Called =>
    /\ ev.res.requests \in 1..ev.tries
    /\ \A k \in 1..(ev.res.requests - 1) : Got(k) # 200
    /\ ev.res.ok <=> Got(ev.res.requests) = 200
    /\ ~ev.res.ok => ev.res.err = Got(ev.res.requests)
\* every attempt failed, each with another retried status, and the error of
\* the last one was raised
C24_Witness ==
  /\ Called /\ ev.tries = 3 /\ ~ev.res.ok /\ ev.res.requests = 3
  /\ Got(1) = 500 /\ Got(2) = 503 /\ Got(3) = 429 /\ ev.res.err = 429

\* the last step was a call of extractFundraisingData
Extracted == ev # NoEvent /\ ev.op = "extract"
\* the dollar figures of a sequence of texts, and the largest of a set of numbers
FiguresOf(texts) == {texts[i][j].n : <<i, j>> \in {ij \in (DOMAIN texts) \X (1..2) :
                        ij[2] <= Len(texts[ij[1]]) /\ IsDollar(texts[ij[1]][ij[2]])}}
Largest(S) == CHOOSE x \in S : \A y \in S : y <= x
\* the elements of the page whose own text has "raised" and a dollar figure
OwnCandidates(page) == SelectSeq(page, LAMBDA t : HasRaised(t) /\ \E j \in 1..Len(t) : IsDollar(t[j]))

\* C25: when some text node of the page has itself the word "raised" and a
\* dollar figure, the total is the largest dollar figure of those nodes; the
\* figures of the other parts of the page are not considered.
C25_Proximity ==
  (Extracted /\ OwnCandidates(ev.page) # <<>>)
    => ev.data.total = Largest(FiguresOf(OwnCandidates(ev.page)))

\* every dollar figure of the page, one entry per occurrence
PageFigures(page) == Nums(Dollars(Concat(page)))
\* m stands at index floor(n/2) (from 0) of the figures q sorted ascending
IsMiddle(m, q) ==
  /\ \E i \in 1..Len(q) : q[i] = m
  /\ Cardinality({i \in 1..Len(q) : q[i] < m}) <= Len(q) \div 2
  /\ Cardinality({i \in 1..Len(q) : q[i] <= m}) > Len(q) \div 2
\* the passes before the fallback found a total: the page has the word
\* "raised" and a dollar figure, so that <body> at least is a candidate
TotalFound(page) == HasRaised(Concat(page)) /\ PageFigures(page) # <<>>

PctOf(page) == FirstN(SelectSeq(Concat(page), LAMBDA k : k.t = "pct"))
\* the labeled-pattern pass found a goal
GoalFound(page) == SelectSeq(Concat(page), IsGoalTok) # <<>>

\* C27: on a page with a "<N>% complete" phrase, 0 < N <= 100, where the
\* earlier passes found a goal and no total, the total is goal * N / 100, and
\* where they found a total and no goal, the goal is total * 100 / N.
C27_PercentDerivation ==
  LET N == PctOf(ev.page)
  IN (Extracted /\ N > 0 /\ N <= 100) =>
       /\ (GoalFound(ev.page) /\ ~TotalFound(ev.page))
            => 100 * ev.data.total = ev.data.goal * N
       /\ (TotalFound(ev.page) /\ ~GoalFound(ev.page))
            => ev.data.goal * N = 100 * ev.data.total

\* C28: when a bulk refresh that the auto-refresh timer started fails,
\* failedAttempts goes up by one, the interval is cancelled and start() is
\* scheduled after min(secs * 2^failedAttempts, 600) seconds; and
\* failedAttempts goes back to 0 only by a bulk refresh that succeeded or by
\* stop().
C28_Backoff ==
  [][/\ (ev'.op = "bulkResponse" /\ ev'.from = "timer" /\ ev'.outcome # "ok")
          => /\ dashboard'.failedAttempts = dashboard.failedAttempts + 1
             /\ dashboard'.timer = "timeout"
             /\ dashboard'.delay =
                  Min(dashboard.secs * 2^(dashboard.failedAttempts + 1), 600)
     /\ (dashboard.failedAttempts > 0 /\ dashboard'.failedAttempts = 0)
          => \/ ev'.op = "stop"
             \/ ev'.op = "bulkResponse" /\ ev'.outcome = "ok"]_vars

\* api() aborts its fetch after 30 s (l.60-86), so a bulk request in flight
\* always settles: with a response, an error or the timeout
DashboardLiveSpec ==
  DashboardSpec
    /\ WF_vars(\E i \in 1..MaxRequests, outcome \in Outcomes : BulkResponse(i, outcome))

\* C29: under any interleaving of Start, Refresh Now, the auto-refresh timer
\* and the fallback timer at most one bulk refresh request is in flight;
\* isRefreshing is true exactly while one is in flight, is false right after
\* that request succeeded, failed or timed out, and whenever it is true it
\* becomes false again.
C29_InFlightGuard ==
  /\ [](/\ Cardinality(InFlight(dashboard, "bulk")) <= 1
        /\ dashboard.isRefreshing <=> InFlight(dashboard, "bulk") # {}
        /\ ev.op = "bulkResponse" => ~dashboard.isRefreshing)
  /\ dashboard.isRefreshing ~> ~dashboard.isRefreshing
\* the auto-refresh timer fired while the bulk refresh of the Refresh Now
\* button was in flight, and sent nothing
C29_Witness ==
  /\ ev.op = "tick" /\ ev.was.isRefreshing
  /\ dashboard.requests = ev.was.requests
  /\ \E i \in InFlight(dashboard, "bulk") : dashboard.requests[i].from = "button"

\* C30: a single-organization refresh request and a bulk refresh request are
\* never in flight at the same time, and the record a single refresh returns
\* never replaces, in the dashboard's copy, data newer than it.
C30_NoOverlap ==
  /\ ~(InFlight(dashboard, "single") # {} /\ InFlight(dashboard, "bulk") # {})
  /\ (ev.op = "singleResponse" /\ ev.outcome = "ok") => dashboard.orgs >= ev.was.orgs

====
